---- MODULE Spec2Model ----
(***************************************************************************)
(* The LinkedIn OAuth/PKCE backend of src/main.py as a state machine.      *)
(*                                                                         *)
(* The shared state is the two MongoDB collections (users, pkce_states)    *)
(* and the wall clock.  FastAPI runs the synchronous handlers on a thread  *)
(* pool, so requests interleave; every store operation and every HTTP call *)
(* to the provider is one atomic step of the request that makes it, and    *)
(* the local variables of a request live in its record between steps.      *)
(* Time is counted in seconds and advances in steps of ClockSteps, so that  *)
(* both now = expires_at and now > expires_at occur.                        *)
(***************************************************************************)
EXTENDS Integers, Sequences, FiniteSets, TLC

VARIABLES
    now,          \* datetime.utcnow(), seconds
    pkce_states,  \* collection db["pkce_states"]
    users,        \* collection db["users"]
    next_post,    \* next post id the provider assigns
    stored,       \* stored[s]: how many times /pkce/store registered state s
    cb,           \* cb[c]: the /callback request c (its locals and position;
                  \* replay records that the state it carries was consumed
                  \* before the request looked it up)
    rq            \* rq[p]: the /post request p (its locals and position)

vars == <<now, pkce_states, users, next_post, stored, cb, rq>>

-----------------------------------------------------------------------------
(* Bounds of the model *)

MaxTime == 1200
MaxPublishTime == 600
MaxStores == 2

ClockSteps == {600}

Callbacks == {"c1", "c2"}
Posters == {"p1", "p2"}

(* Inputs *)
None == ""
StateValues == {"s1"}
Verifiers == {"v1"}
Codes == {"abc"}
Errors == {"access_denied"}
Tokens == {"tok1", "tok2"}
ExpiresInValues == {600, 3600}
Subjects == {"42"}
Texts == {"", "hello"}
TokenStatuses == {200, 400}
ProfileStatuses == {200, 401}
PublishStatuses == {201, 403}

-----------------------------------------------------------------------------
(* Program constants *)

PKCE_TTL == 600

-----------------------------------------------------------------------------
(* Helpers *)

\* mutant: the token is kept as it came, without encryption
StorePlain(t) == <<"plain", t>>

\* fernet.encrypt / fernet.decrypt: the ciphertext is a token distinct from
\* the plaintext that only decrypt opens.
Encrypt(t) == <<"fernet", t>>
Decrypt(ct) == ct[2]

NoToken == <<>>

Urn(linkedin_id) == <<"urn:li:person", linkedin_id>>
NoUrn == <<>>

\* mutant: the token still counts as valid at the instant it expires
is_token_expired_late(user) ==
    IF user.expires_at = 0 THEN TRUE ELSE now > user.expires_at

\* is_token_expired(user): a missing expires_at reads as 0
is_token_expired(user) ==
    IF user.expires_at = 0 THEN TRUE ELSE now >= user.expires_at

\* mutant: the entry counts as expired at the instant it expires
pkce_expired_early(pkce_record) == now >= pkce_record.expires_at

\* datetime.utcnow() > pkce_record.get("expires_at")
pkce_expired(pkce_record) == now > pkce_record.expires_at

\* mutant: the delete matches no document
delete_none(_id) == pkce_states

\* pkce_states.delete_one({"_id": _id}): the collection afterwards
delete_one(_id) == {r \in pkce_states : r._id # _id}

\* mutant: only server errors count as errors
is_server_error(status_code) == status_code >= 500

\* response.status_code >= 400
is_error(status_code) == status_code >= 400

\* HTTPException(status_code, detail) as seen by the caller
HTTPException(status, detail) ==
    [status |-> status, detail |-> detail, linkedin_user_id |-> None,
     linkedin_urn |-> NoUrn, expires_in |-> 0]

\* an exception that is no HTTPException: FastAPI answers 500
Unhandled(what) == HTTPException(500, what)

Connected(linkedin_id, linkedin_urn, expires_in) ==
    [status |-> 200, detail |-> "LinkedIn connected successfully",
     linkedin_user_id |-> linkedin_id, linkedin_urn |-> linkedin_urn,
     expires_in |-> expires_in]

NoResult == HTTPException(0, None)

NoRecord == [_id |-> 0, state |-> None, code_verifier |-> None,
             created_at |-> 0, expires_at |-> 0]

IdleCallback ==
    [pc |-> "idle", code |-> None, state |-> None, error |-> None,
     pkce_record |-> NoRecord, code_verifier |-> None,
     access_token |-> None, expires_in |-> 0, linkedin_id |-> None,
     upsert_at |-> 0, replay |-> FALSE, result |-> NoResult]

IdlePost ==
    [pc |-> "idle", user_id |-> None, text |-> None, user |-> 0,
     access_token |-> None, author_urn |-> NoUrn,
     post_id |-> 0, result |-> NoResult]

-----------------------------------------------------------------------------
Init ==
    /\ now = 0
    /\ pkce_states = {}
    /\ users = {}
    /\ next_post = 1
    /\ stored = [s \in StateValues |-> 0]
    /\ cb = [c \in Callbacks |-> IdleCallback]
    /\ rq = [p \in Posters |-> IdlePost]

\* the clock advances
TickTo(limit) ==
    /\ \E d \in ClockSteps :
          /\ now + d <= limit
          /\ now' = now + d
    /\ UNCHANGED <<pkce_states, users, next_post, stored, cb, rq>>

-----------------------------------------------------------------------------
(* POST /pkce/store *)

\* the _id insert_one gives a new document: ObjectIds are unique within a
\* collection, here the documents are numbered in insertion order
SumStored(S) ==
    LET RECURSIVE Sum(_)
        Sum(T) == IF T = {} THEN 0
                  ELSE LET s == CHOOSE x \in T : TRUE IN stored[s] + Sum(T \ {s})
    IN  Sum(S)
NewPkceId == SumStored(StateValues) + 1
NewUserId == Cardinality(users) + 1

store_pkce_state(state, code_verifier) ==
    /\ stored[state] < MaxStores
    /\ pkce_states' = pkce_states \cup
          {[_id |-> NewPkceId, state |-> state, code_verifier |-> code_verifier,
            created_at |-> now, expires_at |-> now + PKCE_TTL]}
    /\ stored' = [stored EXCEPT ![state] = @ + 1]
    /\ UNCHANGED <<now, users, next_post, cb, rq>>

-----------------------------------------------------------------------------
(* GET /callback *)

\* callback c holds a code_verifier it read from a live entry: it is at or
\* past line 196, or ended with an answer only given after line 196
Obtained(c) ==
    \/ cb[c].pc \in {"exchange", "profile", "upsert", "insert"}
    \/ /\ cb[c].pc = "done"
       /\ cb[c].result.detail \in {"token response text", "KeyError",
                                   "Failed to fetch LinkedIn profile",
                                   "LinkedIn connected successfully"}

\* some callback has consumed an entry of state s (line 196)
Consumed(s) == \E d \in Callbacks : cb[d].state = s /\ Obtained(d)

\* some callback has deleted an expired entry of state s (line 186)
ExpiredOut(s) ==
    \E d \in Callbacks : /\ cb[d].state = s
                          /\ cb[d].pc = "done"
                          /\ cb[d].result.detail = "PKCE state expired"

\* the request ends: its locals are gone; the state it carried, the response
\* it got and whether it replayed a state are kept for reference
Finish(c, result) ==
    [IdleCallback EXCEPT !.pc = "done", !.state = cb[c].state,
                         !.replay = cb[c].replay, !.result = result]

\* mutant: the error parameter of the redirect is not looked at
rejection_ignoring_error(code, state, error) ==
    IF code = None
      THEN HTTPException(400, "Missing authorization code")
    ELSE IF state = None
      THEN HTTPException(400, "Missing state parameter")
    ELSE NoResult

\* lines 162-173: the answer to a redirect that carries an error or lacks
\* code or state; NoResult when the request goes on
rejection(code, state, error) ==
    IF error # None
      THEN HTTPException(400, "LinkedIn OAuth error")
    ELSE IF code = None
      THEN HTTPException(400, "Missing authorization code")
    ELSE IF state = None
      THEN HTTPException(400, "Missing state parameter")
    ELSE NoResult

\* mutant: only server errors of the provider count as failures
provider_down(status_code) == status_code >= 500

\* token_res.status_code != 200, profile_res.status_code != 200
not_ok(status_code) == status_code # 200

\* lines 150-192: read the query, reject bad requests, look the state up
\* and test the entry's expiry
CallbackLookup(c, code, state, error) ==
    /\ cb[c].pc = "idle"
    /\ LET replay == state # None /\ Consumed(state)
           req == [cb[c] EXCEPT !.code = code, !.state = state, !.error = error,
                                !.replay = replay]
           found == {r \in pkce_states : r.state = state}
           fail(result) == cb' = [cb EXCEPT ![c] =
                              [IdleCallback EXCEPT !.pc = "done", !.state = state,
                                                   !.replay = replay,
                                                   !.result = result]]
       IN  IF rejection(code, state, error) # NoResult
             THEN fail(rejection(code, state, error))
           ELSE IF found = {}
             THEN fail(HTTPException(400, "PKCE state not found or expired"))
           ELSE \E r \in found :
                  cb' = [cb EXCEPT ![c] =
                     [req EXCEPT !.pkce_record = r,
                                 !.pc = IF pkce_expired(r)
                                          THEN "expired" ELSE "found"]]
    /\ UNCHANGED <<now, pkce_states, users, next_post, stored, rq>>

\* lines 186-190: delete the expired entry and fail
CallbackExpired(c) ==
    /\ cb[c].pc = "expired"
    /\ pkce_states' = delete_one(cb[c].pkce_record._id)
    /\ cb' = [cb EXCEPT ![c] = Finish(c, HTTPException(400, "PKCE state expired"))]
    /\ UNCHANGED <<now, users, next_post, stored, rq>>

\* lines 192-196: take the code_verifier and delete the used entry
CallbackConsume(c) ==
    /\ cb[c].pc = "found"
    /\ pkce_states' = delete_one(cb[c].pkce_record._id)
    /\ cb' = [cb EXCEPT ![c].code_verifier = cb[c].pkce_record.code_verifier,
                        ![c].pkce_record = NoRecord,
                        ![c].pc = "exchange"]
    /\ UNCHANGED <<now, users, next_post, stored, rq>>

\* lines 204-229: the token endpoint answers status_code with a body that
\* holds access_token and expires_in, or lacks them
CallbackExchange(c, status_code, has_fields, access_token, expires_in) ==
    /\ cb[c].pc = "exchange"
    /\ cb' = [cb EXCEPT ![c] =
          IF not_ok(status_code)
            THEN Finish(c, HTTPException(400, "token response text"))
          ELSE IF ~has_fields
            THEN Finish(c, Unhandled("KeyError"))
          ELSE [cb[c] EXCEPT !.access_token = access_token,
                             !.expires_in = expires_in,
                             !.code_verifier = None,
                             !.pc = "profile"]]
    /\ UNCHANGED <<now, pkce_states, users, next_post, stored, rq>>

\* lines 233-250: the userinfo endpoint answers status_code with a body that
\* holds sub, or lacks it
CallbackProfile(c, status_code, has_sub, sub) ==
    /\ cb[c].pc = "profile"
    /\ cb' = [cb EXCEPT ![c] =
          IF not_ok(status_code)
            THEN Finish(c, HTTPException(400, "Failed to fetch LinkedIn profile"))
          ELSE IF ~has_sub
            THEN Finish(c, Unhandled("KeyError"))
          ELSE [cb[c] EXCEPT !.linkedin_id = sub, !.pc = "upsert"]]
    /\ UNCHANGED <<now, pkce_states, users, next_post, stored, rq>>

\* mutant: the update replaces the whole document, history included
ReplaceDocument(u, c, t) ==
    [_id |-> u._id, user_id |-> cb[c].linkedin_id, urn |-> Urn(cb[c].linkedin_id),
     access_token |-> Encrypt(cb[c].access_token),
     expires_at |-> t + cb[c].expires_in, updated_at |-> t, created_at |-> t,
     drafts |-> <<>>, posts |-> <<>>]

\* mutant: the expiry is the provider's expires_in, not now + expires_in
SetCredentialNoClock(u, c, t) ==
    [u EXCEPT !.user_id = cb[c].linkedin_id,
              !.urn = Urn(cb[c].linkedin_id),
              !.access_token = Encrypt(cb[c].access_token),
              !.expires_at = cb[c].expires_in,
              !.updated_at = t]

\* mutant: this update writes the token only; the expiry is left for a
\* second update
SetTokenOnly(u, c, t) ==
    [u EXCEPT !.user_id = cb[c].linkedin_id,
              !.urn = Urn(cb[c].linkedin_id),
              !.access_token = Encrypt(cb[c].access_token),
              !.updated_at = t]

\* the $set part of the update on document u, with the timestamps the
\* request computed at time t
SetCredential(u, c, t) ==
    [u EXCEPT !.user_id = cb[c].linkedin_id,
              !.urn = Urn(cb[c].linkedin_id),
              !.access_token = Encrypt(cb[c].access_token),
              !.expires_at = t + cb[c].expires_in,
              !.updated_at = t]

\* the document an upsert inserts: $setOnInsert then $set
NewUser(oid, c, t) ==
    SetCredential([_id |-> oid, user_id |-> None, urn |-> NoUrn,
                   access_token |-> NoToken, expires_at |-> 0,
                   updated_at |-> 0, created_at |-> t,
                   drafts |-> <<>>, posts |-> <<>>], c, t)

\* mutant: the filter of the update matches any document
matching_any(linkedin_id) == users

\* the documents the filter {"linkedin.user_id": linkedin_id} matches
matching(linkedin_id) == {u \in users : u.user_id = linkedin_id}

CallbackReturn(c) ==
    Finish(c, Connected(cb[c].linkedin_id, Urn(cb[c].linkedin_id), cb[c].expires_in))

\* lines 253-284: users.update_one(..., upsert=True).  A matching document
\* is updated in place.  With no match the store goes on to insert, and the
\* collection has no unique index on linkedin.user_id, so the insert is a
\* second step that another request's upsert can precede.
CallbackUpsert(c) ==
    /\ cb[c].pc = "upsert"
    /\ LET matched == matching(cb[c].linkedin_id)
       IN  IF matched = {}
             THEN /\ cb' = [cb EXCEPT ![c].upsert_at = now, ![c].pc = "insert"]
                  /\ UNCHANGED users
             ELSE \E u \in matched :
                  /\ users' = (users \ {u}) \cup {SetCredential(u, c, now)}
                  /\ cb' = [cb EXCEPT ![c] = CallbackReturn(c)]
    /\ UNCHANGED <<now, pkce_states, next_post, stored, rq>>

CallbackInsert(c) ==
    /\ cb[c].pc = "insert"
    /\ users' = users \cup {NewUser(NewUserId, c, cb[c].upsert_at)}
    /\ cb' = [cb EXCEPT ![c] = CallbackReturn(c)]
    /\ UNCHANGED <<now, pkce_states, next_post, stored, rq>>

-----------------------------------------------------------------------------
(* POST /post *)

\* the request ends: its locals are gone; the document it resolved, the post
\* id it recorded and the response it got are kept for reference
FinishPost(p, post_id, result) ==
    [IdlePost EXCEPT !.pc = "done", !.user = rq[p].user, !.post_id = post_id,
                     !.result = result]

\* manual_post and create_linkedin_post up to the request to ugcPosts
\* (lines 139-88): find the user, gate on the credential, send the post
PostSend(p, user_id, text) ==
    /\ rq[p].pc = "idle"
    /\ LET found == {u \in users : u.user_id = user_id}
           fail(result) == rq' = [rq EXCEPT ![p] = FinishPost(p, 0, result)]
       IN  IF found = {}
             THEN fail(HTTPException(404, "User not found"))
           ELSE \E user \in found :
                  IF is_token_expired(user)
                    THEN fail(HTTPException(401, "LinkedIn token expired"))
                  ELSE IF user.access_token = NoToken
                    THEN fail(HTTPException(401, "Missing access token"))
                  ELSE IF user.urn = NoUrn
                    THEN fail(HTTPException(400, "Missing LinkedIn URN"))
                  ELSE rq' = [rq EXCEPT ![p] =
                          [rq[p] EXCEPT !.user_id = user_id, !.text = text,
                                        !.user = user._id,
                                        !.access_token = Decrypt(user.access_token),
                                        !.author_urn = user.urn,
                                        !.pc = "sent"]]
    /\ UNCHANGED <<now, pkce_states, users, next_post, stored, cb>>

\* mutant: the update sets posts to the one new record
SetPosts(_id, record) ==
    {IF u._id = _id THEN [u EXCEPT !.posts = <<record>>] ELSE u : u \in users}

\* users.update_one({"_id": _id}, {"$push": {"posts": record}})
Push(_id, record) ==
    {IF u._id = _id THEN [u EXCEPT !.posts = Append(@, record)] ELSE u : u \in users}

\* lines 90-111: the provider answers status_code, with a fresh post id or
\* without one
PostResponse(p, status_code, has_id) ==
    /\ rq[p].pc = "sent"
    /\ IF is_error(status_code)
         THEN /\ rq' = [rq EXCEPT ![p] =
                    FinishPost(p, 0, HTTPException(status_code, "response text"))]
              /\ UNCHANGED <<users, next_post>>
       ELSE IF has_id
         THEN /\ users' = Push(rq[p].user,
                    [post_id |-> next_post, text |-> rq[p].text, posted_at |-> now])
              /\ next_post' = next_post + 1
              /\ rq' = [rq EXCEPT ![p] =
                    FinishPost(p, next_post, HTTPException(status_code, "response json"))]
       ELSE /\ rq' = [rq EXCEPT ![p] =
                    FinishPost(p, 0, HTTPException(status_code, "response json"))]
            /\ UNCHANGED <<users, next_post>>
    /\ UNCHANGED <<now, pkce_states, stored, cb>>

-----------------------------------------------------------------------------
(* The service under arbitrary requests: two concurrent callbacks, one     *)
(* publisher, every answer the provider can give.                          *)

OnePoster == {"p1"}

Next ==
    \/ TickTo(MaxTime)
    \/ \E s \in StateValues, v \in Verifiers : store_pkce_state(s, v)
    \/ \E c \in Callbacks, code \in Codes \cup {None},
          state \in StateValues \cup {None}, error \in Errors \cup {None} :
          CallbackLookup(c, code, state, error)
    \/ \E c \in Callbacks : CallbackExpired(c)
    \/ \E c \in Callbacks : CallbackConsume(c)
    \/ \E c \in Callbacks, status_code \in TokenStatuses, has_fields \in BOOLEAN,
          access_token \in Tokens, expires_in \in ExpiresInValues :
          CallbackExchange(c, status_code, has_fields, access_token, expires_in)
    \/ \E c \in Callbacks, status_code \in ProfileStatuses, has_sub \in BOOLEAN,
          sub \in Subjects :
          CallbackProfile(c, status_code, has_sub, sub)
    \/ \E c \in Callbacks : CallbackUpsert(c)
    \/ \E c \in Callbacks : CallbackInsert(c)
    \/ \E p \in OnePoster, user_id \in Subjects, text \in Texts :
          PostSend(p, user_id, text)
    \/ \E p \in OnePoster, status_code \in PublishStatuses, has_id \in BOOLEAN :
          PostResponse(p, status_code, has_id)

Spec == Init /\ [][Next]_vars

(* Concurrent publishing: two publishers race each other and the callbacks *)
(* that authorize and re-authorize the identity; the callbacks' requests   *)
(* are well formed and the provider grants them.  No PKCE entry can expire *)
(* within MaxPublishTime, so the expiry branch of the callback is absent.  *)

NextPublish ==
    \/ TickTo(MaxPublishTime)
    \/ \E s \in StateValues, v \in Verifiers : store_pkce_state(s, v)
    \/ \E c \in Callbacks, code \in Codes, state \in StateValues :
          CallbackLookup(c, code, state, None)
    \/ \E c \in Callbacks : CallbackConsume(c)
    \/ \E c \in Callbacks, access_token \in Tokens, expires_in \in ExpiresInValues :
          CallbackExchange(c, 200, TRUE, access_token, expires_in)
    \/ \E c \in Callbacks, sub \in Subjects : CallbackProfile(c, 200, TRUE, sub)
    \/ \E c \in Callbacks : CallbackUpsert(c)
    \/ \E c \in Callbacks : CallbackInsert(c)
    \/ \E p \in Posters, user_id \in Subjects :
          PostSend(p, user_id, "hello")
    \/ \E p \in Posters, status_code \in PublishStatuses, has_id \in BOOLEAN :
          PostResponse(p, status_code, has_id)

SpecPublish == Init /\ [][NextPublish]_vars

(* Two members: the callbacks connect either of two LinkedIn members, or  *)
(* both the same one, while a publisher posts for either; requests are    *)
(* well formed and the provider grants them.                              *)

Members == Subjects \cup {"43"}

NextIdentity ==
    \/ TickTo(MaxPublishTime)
    \/ \E s \in StateValues, v \in Verifiers : store_pkce_state(s, v)
    \/ \E c \in Callbacks, code \in Codes, state \in StateValues :
          CallbackLookup(c, code, state, None)
    \/ \E c \in Callbacks : CallbackConsume(c)
    \/ \E c \in Callbacks, access_token \in Tokens, expires_in \in ExpiresInValues :
          CallbackExchange(c, 200, TRUE, access_token, expires_in)
    \/ \E c \in Callbacks, sub \in Members : CallbackProfile(c, 200, TRUE, sub)
    \/ \E c \in Callbacks : CallbackUpsert(c)
    \/ \E c \in Callbacks : CallbackInsert(c)
    \/ \E p \in OnePoster, user_id \in Members :
          PostSend(p, user_id, "hello")
    \/ \E p \in OnePoster, status_code \in PublishStatuses, has_id \in BOOLEAN :
          PostResponse(p, status_code, has_id)

SpecIdentity == Init /\ [][NextIdentity]_vars

-----------------------------------------------------------------------------
(* Properties *)

InvalidOrExpiredState(result) ==
    /\ result.status = 400
    /\ result.detail \in {"PKCE state not found or expired", "PKCE state expired"}

\* C1: one-time use under concurrency.  For a state registered once by
\* /pkce/store, at most one of the callbacks carrying it obtains the
\* code_verifier and goes on to the token exchange.
C1_OneTimeUse ==
    \A s \in StateValues :
        stored[s] = 1 =>
            Cardinality({c \in Callbacks : cb[c].state = s /\ Obtained(c)}) <= 1

\* C2: after a state value was consumed or deleted as expired, no later
\* callback carrying it obtains a code_verifier, whatever /pkce/store and
\* /callback operations happen (storing the same value again included).
C2_NeverValidAgain ==
    [][\A c \in Callbacks, code \in Codes, s \in StateValues :
          (CallbackLookup(c, code, s, None) /\ (Consumed(s) \/ ExpiredOut(s)))
              => cb'[c].pc = "done" /\ InvalidOrExpiredState(cb'[c].result)]_vars

\* C3: sequential replay fails.  When state s was registered exactly once
\* and a callback has consumed it, every callback that looks s up afterwards
\* ends with the invalid-or-expired-state error (400) on the spot: it never
\* reaches the token exchange and the users collection is unchanged.
C3_ReplayFails ==
    [][\A c \in Callbacks, code \in Codes, s \in StateValues :
          (CallbackLookup(c, code, s, None) /\ stored[s] = 1 /\ Consumed(s))
              => /\ cb'[c].pc = "done"
                 /\ InvalidOrExpiredState(cb'[c].result)
                 /\ users' = users
                 /\ pkce_states' = pkce_states]_vars

\* a second callback replayed the once-registered state s1 after the first
\* had consumed it, and was turned away
C3_Witness ==
    \E c \in Callbacks :
        /\ stored["s1"] = 1
        /\ cb[c].pc = "done" /\ cb[c].state = "s1" /\ cb[c].replay
        /\ InvalidOrExpiredState(cb[c].result)

\* C4: TTL enforcement.  Every PKCE entry expires PKCE_TTL (10 minutes)
\* after its creation.  A callback that finds an entry created at T goes, when
\* now > T + PKCE_TTL, to the branch that deletes the entry and fails with
\* the invalid-or-expired-state error without reaching the token exchange;
\* when now <= T + PKCE_TTL it consumes the entry: it takes its
\* code_verifier, deletes it and goes on to the exchange.
C4_TTL ==
    /\ [](\A r \in pkce_states : r.expires_at = r.created_at + PKCE_TTL)
    /\ [][\A c \in Callbacks :
            /\ (cb[c].pc = "idle" /\ cb'[c].pc \in {"expired", "found"})
                  => LET r == cb'[c].pkce_record
                     IN  /\ r \in pkce_states
                         /\ r.state = cb'[c].state
                         /\ (now > r.created_at + PKCE_TTL) = (cb'[c].pc = "expired")
            /\ (cb[c].pc = "expired" /\ cb'[c].pc # "expired")
                  => /\ cb'[c].pc = "done"
                     /\ InvalidOrExpiredState(cb'[c].result)
                     /\ cb[c].pkce_record \notin pkce_states'
                     /\ users' = users
            /\ (cb[c].pc = "found" /\ cb'[c].pc # "found")
                  => /\ cb'[c].pc = "exchange"
                     /\ cb'[c].code_verifier = cb[c].pkce_record.code_verifier
                     /\ cb[c].pkce_record \notin pkce_states']_vars

\* a callback found an entry past its expiry, deleted it and failed; no
\* entry of that state remains and no identity was written
C4_Witness ==
    \E c \in Callbacks :
        /\ cb[c].pc = "done"
        /\ cb[c].result = HTTPException(400, "PKCE state expired")
        /\ ~cb[c].replay
        /\ \A r \in pkce_states : r.state # cb[c].state
        /\ users = {}

\* the credential of document u can be used now: token and expiry present
\* and now < expires_at
Usable(u) == u.access_token # NoToken /\ u.expires_at # 0 /\ now < u.expires_at

\* C5: token gating fails closed.  A publish that resolves to an identity
\* whose credential is absent or has expires_at <= now ends with 401 on the
\* spot, without a downstream call and without a store mutation; a publish
\* reaches the downstream call only for a document whose credential is
\* usable, and presents the decrypted stored token.
C5_TokenGating ==
    [][\A p \in Posters, user_id \in Subjects, text \in Texts :
          PostSend(p, user_id, text) =>
             LET found == {u \in users : u.user_id = user_id}
             IN  /\ (found # {} /\ \A u \in found : ~Usable(u))
                       => /\ rq'[p].pc = "done"
                          /\ rq'[p].result.status = 401
                          /\ users' = users
                 /\ rq'[p].pc = "sent"
                       => \E u \in found : /\ u._id = rq'[p].user
                                            /\ Usable(u)
                                            /\ Encrypt(rq'[p].access_token) = u.access_token]_vars

\* a publish was refused with 401 for an identity whose token has expired,
\* and the identity has no post
C5_Witness ==
    \E p \in Posters, u \in users :
        /\ rq[p].pc = "done"
        /\ rq[p].result = HTTPException(401, "LinkedIn token expired")
        /\ u.expires_at <= now
        /\ u.posts = <<>>

\* C6: no lost appends.  The posts of every identity are exactly the posts
\* of the publishes that ended with a downstream success and a post id for
\* it: as many entries as such publishes, one per post id, under every
\* interleaving of the publishes with each other and with the callbacks'
\* upserts.
C6_NoLostAppends ==
    \A u \in users :
        LET succeeded == {p \in Posters : /\ rq[p].pc = "done"
                                           /\ rq[p].user = u._id
                                           /\ rq[p].post_id # 0}
        IN  /\ Len(u.posts) = Cardinality(succeeded)
            /\ {u.posts[i].post_id : i \in 1..Len(u.posts)}
                  = {rq[p].post_id : p \in succeeded}

\* two publishes succeeded for one identity that a second callback
\* re-authorized after its creation, and both posts are there
C6_Witness ==
    \E u \in users :
        /\ Len(u.posts) = 2
        /\ u.posts[1].post_id # u.posts[2].post_id
        /\ u.updated_at > u.created_at

\* C7: failed publishes never append.  A downstream answer with status >=
\* 400 ends the publish with an error carrying that status and the body and
\* leaves the users collection as it was; the posts of an identity change
\* only by one publish appending one record after a downstream success.
C7_FailedNeverAppend ==
    [][/\ \A p \in Posters, status_code \in PublishStatuses, has_id \in BOOLEAN :
             (PostResponse(p, status_code, has_id) /\ status_code >= 400)
                => /\ rq'[p].pc = "done"
                   /\ rq'[p].result = HTTPException(status_code, "response text")
                   /\ users' = users
       /\ \A u \in users, u2 \in users' :
             (u2._id = u._id /\ u2.posts # u.posts)
                => /\ Len(u2.posts) = Len(u.posts) + 1
                   /\ SubSeq(u2.posts, 1, Len(u.posts)) = u.posts
                   /\ \E p \in Posters : /\ rq[p].pc = "sent"
                                          /\ rq[p].user = u._id
                                          /\ rq'[p].pc = "done"
                                          /\ rq'[p].result.status < 400
                                          /\ rq'[p].post_id = u2.posts[Len(u2.posts)].post_id
       /\ Cardinality({u \in users : \E u2 \in users' :
                          u2._id = u._id /\ u2.posts # u.posts}) <= 1]_vars

\* a publish got a downstream error, ended with that status, and the
\* identity it was for still has no post
C7_Witness ==
    \E p \in Posters, u \in users :
        /\ rq[p].pc = "done"
        /\ rq[p].result = HTTPException(403, "response text")
        /\ rq[p].user = u._id
        /\ u.posts = <<>>

\* C8: upsert idempotence on identity.  When a callback commits for a
\* provider_user_id that has its one Identity record already, the record
\* stays the only one for it, takes the encrypted token and expires_at of
\* this callback's exchange, and keeps its _id, posts, drafts and
\* created_at; no other record changes.
C8_UpsertIdempotent ==
    [][\A c \in Callbacks :
          LET matched == {u \in users : u.user_id = cb[c].linkedin_id}
          IN  (cb[c].pc = "upsert" /\ cb'[c].pc # "upsert" /\ Cardinality(matched) = 1)
                 => \E u \in matched, u2 \in users' :
                       /\ users' = (users \ {u}) \cup {u2}
                       /\ {v \in users' : v.user_id = cb[c].linkedin_id} = {u2}
                       /\ u2._id = u._id
                       /\ u2.access_token = Encrypt(cb[c].access_token)
                       /\ u2.expires_at = now + cb[c].expires_in
                       /\ u2.posts = u.posts
                       /\ u2.drafts = u.drafts
                       /\ u2.created_at = u.created_at
                       /\ cb'[c].pc = "done"
                       /\ cb'[c].result.status = 200]_vars

\* both callbacks connected the same provider_user_id, the second one later
\* than the first; the one record carries a post made before the second
\* callback committed
C8_Witness ==
    /\ \A c \in Callbacks : cb[c].pc = "done" /\ cb[c].result.status = 200
    /\ \E u \in users :
          /\ users = {u}
          /\ u.updated_at > u.created_at
          /\ Len(u.posts) = 1
          /\ u.posts[1].posted_at < u.updated_at

\* C9: identity uniqueness.  The users collection holds at most one
\* document per provider_user_id.
C9_UniqueIdentity ==
    \A u1 \in users, u2 \in users : u1.user_id = u2.user_id => u1 = u2

\* C10: a publish with empty text makes no downstream call.
C10_EmptyTextRejected ==
    \A p \in Posters : rq[p].pc = "sent" => rq[p].text # ""

\* C11: a callback rejected before state resolution has no side effects.
\* A redirect that carries an error, or lacks code or state, ends with 400
\* (the provider-authorization error, respectively the missing-parameter
\* error) on the spot; the PKCE store and the users collection are unchanged
\* and the request never reaches a provider call, so an entry of the state
\* it carried is still there.
C11_RejectedNoEffect ==
    [][\A c \in Callbacks, code \in Codes \cup {None},
          state \in StateValues \cup {None}, error \in Errors \cup {None} :
          (CallbackLookup(c, code, state, error)
             /\ (error # None \/ code = None \/ state = None))
              => /\ cb'[c].pc = "done"
                 /\ cb'[c].result.status = 400
                 /\ cb'[c].result.detail =
                       (IF error # None THEN "LinkedIn OAuth error"
                        ELSE IF code = None THEN "Missing authorization code"
                        ELSE "Missing state parameter")
                 /\ pkce_states' = pkce_states
                 /\ users' = users]_vars

\* a redirect carrying the stored state s1 was rejected for its error or its
\* missing code, and the entry of s1 is still in the store, unexpired
C11_Witness ==
    \E c \in Callbacks, r \in pkce_states :
        /\ cb[c].pc = "done"
        /\ cb[c].result.detail \in {"LinkedIn OAuth error", "Missing authorization code"}
        /\ cb[c].state = "s1"
        /\ r.state = "s1"
        /\ ~pkce_expired(r)
        /\ stored["s1"] = 1
        /\ \A d \in Callbacks : d # c => cb[d].pc = "idle"

\* C12: a downstream failure during the callback commits nothing.  A
\* non-200 answer of the token endpoint ends the callback with the
\* token-exchange error, a non-200 answer of the identity endpoint with the
\* identity-fetch error; in both cases the users collection is unchanged.
C12_DownstreamFailureCommitsNothing ==
    [][\A c \in Callbacks :
          /\ \A status_code \in TokenStatuses, has_fields \in BOOLEAN,
                access_token \in Tokens, expires_in \in ExpiresInValues :
                (CallbackExchange(c, status_code, has_fields, access_token, expires_in)
                   /\ status_code # 200)
                    => /\ cb'[c].pc = "done"
                       /\ cb'[c].result = HTTPException(400, "token response text")
                       /\ users' = users
          /\ \A status_code \in ProfileStatuses, has_sub \in BOOLEAN, sub \in Subjects :
                (CallbackProfile(c, status_code, has_sub, sub) /\ status_code # 200)
                    => /\ cb'[c].pc = "done"
                       /\ cb'[c].result = HTTPException(400, "Failed to fetch LinkedIn profile")
                       /\ users' = users]_vars

\* a callback failed at the identity fetch while the identity of an earlier
\* callback is in the store, with its credential as that callback wrote it
C12_Witness ==
    \E c \in Callbacks, d \in Callbacks, u \in users :
        /\ cb[c].pc = "done"
        /\ cb[c].result = HTTPException(400, "Failed to fetch LinkedIn profile")
        /\ cb[d].pc = "done"
        /\ cb[d].result.status = 200
        /\ users = {u}
        /\ u.expires_at = u.updated_at + cb[d].result.expires_in

\* C13: every callback failure reaches the caller as a typed error: no
\* callback ends in an unhandled fault (500).
C13_NoUnhandledFault ==
    \A c \in Callbacks : cb[c].pc = "done" => cb[c].result.status # 500

\* a step of a handler that is already running callback c: the worker thread
\* goes on to its next database or HTTP call
CallbackStep(c) ==
    \/ CallbackExpired(c)
    \/ CallbackConsume(c)
    \/ \E status_code \in TokenStatuses, has_fields \in BOOLEAN,
          access_token \in Tokens, expires_in \in ExpiresInValues :
          CallbackExchange(c, status_code, has_fields, access_token, expires_in)
    \/ \E status_code \in ProfileStatuses, has_sub \in BOOLEAN, sub \in Subjects :
          CallbackProfile(c, status_code, has_sub, sub)
    \/ CallbackUpsert(c)
    \/ CallbackInsert(c)

\* a step of a handler that is already running publish p
PostStep(p) ==
    \E status_code \in PublishStatuses, has_id \in BOOLEAN :
        PostResponse(p, status_code, has_id)

\* time passes and a handler that has started runs to its end (the thread
\* pool schedules it and every outbound call has a timeout); nothing makes
\* a client send a request
Fairness ==
    /\ WF_vars(TickTo(MaxTime))
    /\ \A c \in Callbacks : WF_vars(CallbackStep(c))
    /\ \A p \in OnePoster : WF_vars(PostStep(p))

SpecFair == Spec /\ Fairness

\* callback c commits in this step: its update_one takes effect and it
\* returns
Commits(c) == cb[c].pc \in {"upsert", "insert"} /\ cb'[c].pc = "done"

\* the time the committing callback read for its timestamps
CommitTime(c) == IF cb[c].pc = "insert" THEN cb[c].upsert_at ELSE now

\* C14: callback success commits the resolved identity.  The callback keeps
\* the access token and expiry E of the token answer and the subject id X of
\* the identity answer; when it commits there is an Identity with
\* provider_user_id X, urn "urn:li:person:" + X and expires_at = (the time
\* the callback read) + E, and the callback returns X, that urn and E.
C14_SuccessCommits ==
    [][\A c \in Callbacks :
          /\ \A access_token \in Tokens, expires_in \in ExpiresInValues :
                CallbackExchange(c, 200, TRUE, access_token, expires_in)
                   => /\ cb'[c].pc = "profile"
                      /\ cb'[c].access_token = access_token
                      /\ cb'[c].expires_in = expires_in
          /\ \A sub \in Subjects :
                CallbackProfile(c, 200, TRUE, sub)
                   => /\ cb'[c].pc = "upsert"
                      /\ cb'[c].linkedin_id = sub
                      /\ cb'[c].expires_in = cb[c].expires_in
          /\ Commits(c)
                => LET X == cb[c].linkedin_id
                       E == cb[c].expires_in
                   IN  /\ \E u \in users' : /\ u.user_id = X
                                             /\ u.urn = <<"urn:li:person", X>>
                                             /\ u.expires_at = CommitTime(c) + E
                                             /\ u.updated_at = CommitTime(c)
                       /\ cb'[c].result.status = 200
                       /\ cb'[c].result.linkedin_user_id = X
                       /\ cb'[c].result.linkedin_urn = <<"urn:li:person", X>>
                       /\ cb'[c].result.expires_in = E]_vars

\* a callback at time 600 got expires_in 3600 and subject 42: it returned
\* them and the Identity 42 expires at 4200
C14_Witness ==
    \E c \in Callbacks, u \in users :
        /\ cb[c].pc = "done"
        /\ cb[c].result = Connected("42", <<"urn:li:person", "42">>, 3600)
        /\ u.user_id = "42"
        /\ u.urn = <<"urn:li:person", "42">>
        /\ u.updated_at = 600
        /\ u.expires_at = 4200

\* v is a fernet ciphertext of a bearer token
IsCiphertext(v) == Len(v) = 2 /\ v[1] = "fernet" /\ v[2] \in Tokens

\* C15: encryption at rest.  The token of every Identity is a ciphertext of
\* a bearer token, never the token as the provider gave it; it changes only
\* when a callback that resolved to that Identity commits, to the ciphertext
\* of the token of that callback's exchange; and a publish presents
\* downstream the token whose ciphertext is stored.
C15_EncryptedAtRest ==
    /\ [](\A u \in users : IsCiphertext(u.access_token))
    /\ [][/\ \A c \in Callbacks :
                Commits(c) => \E u \in users' :
                                 /\ u.user_id = cb[c].linkedin_id
                                 /\ u.access_token = <<"fernet", cb[c].access_token>>
          /\ \A u2 \in users' :
                (\A u \in users : u._id = u2._id => u.access_token # u2.access_token)
                   => \E c \in Callbacks :
                         /\ Commits(c)
                         /\ cb[c].linkedin_id = u2.user_id
                         /\ u2.access_token = <<"fernet", cb[c].access_token>>
          /\ \A p \in Posters :
                (rq[p].pc = "idle" /\ rq'[p].pc = "sent")
                   => \E u \in users :
                         /\ u._id = rq'[p].user
                         /\ u.access_token = <<"fernet", rq'[p].access_token>>]_vars

\* a publish presents tok2 downstream for an Identity whose stored token is
\* the ciphertext of tok2
C15_Witness ==
    \E p \in Posters, u \in users :
        /\ rq[p].pc = "sent"
        /\ rq[p].user = u._id
        /\ rq[p].access_token = "tok2"
        /\ u.access_token = <<"fernet", "tok2">>

\* C16: credential writes are atomic per Identity.  Every step that changes
\* the token or the expiry of an Identity (or creates it) is the commit of
\* one callback and writes both from that callback's exchange; a publish
\* reads token and expiry from one document in one step; and the credential
\* of every Identity is that of one of the callbacks that connected it.
C16_AtomicCredential ==
    /\ [](\A u \in users :
             \E c \in Callbacks : /\ cb[c].pc = "done"
                                   /\ cb[c].result.status = 200
                                   /\ cb[c].result.linkedin_user_id = u.user_id
                                   /\ u.expires_at = u.updated_at + cb[c].result.expires_in)
    /\ [][/\ \A u2 \in users' :
                (\A u \in users : u._id = u2._id =>
                      (u.access_token # u2.access_token \/ u.expires_at # u2.expires_at))
                   => \E c \in Callbacks :
                         /\ Commits(c)
                         /\ cb[c].linkedin_id = u2.user_id
                         /\ u2.access_token = <<"fernet", cb[c].access_token>>
                         /\ u2.expires_at = CommitTime(c) + cb[c].expires_in
          /\ \A p \in Posters :
                (rq[p].pc = "idle" /\ rq'[p].pc = "sent")
                   => \E u \in users :
                         /\ u._id = rq'[p].user
                         /\ u.access_token = <<"fernet", rq'[p].access_token>>
                         /\ now < u.expires_at]_vars

\* both callbacks connected the one Identity in the same clock window while
\* a publish holding its token is under way and another has posted
C16_Witness ==
    \E u \in users, p \in Posters :
        /\ \A c \in Callbacks : cb[c].pc = "done" /\ cb[c].result.status = 200
        /\ users = {u}
        /\ u.updated_at = u.created_at
        /\ rq[p].pc = "sent" /\ rq[p].user = u._id
        /\ Len(u.posts) = 1

\* C17: expired entries do not linger.  A PKCE entry whose expires_at has
\* passed is eventually gone from pkce_states, also when no callback ever
\* presents its state (a callback that reads it deletes it, so an entry that
\* stays for ever is one that was never presented).
C17_ExpiredEventuallyDeleted ==
    \A id \in 1..MaxStores :
        (\E r \in pkce_states : r._id = id /\ now > r.expires_at)
            ~> ~(\E r \in pkce_states : r._id = id)

\* callback d ended with a failure of the token exchange or of the identity
\* fetch (lines 222-225, 228-229, 241-243, 249)
FailedDownstream(d) ==
    /\ cb[d].pc = "done"
    /\ cb[d].result.detail \in {"token response text", "KeyError",
                                "Failed to fetch LinkedIn profile"}

\* C18, first part: the entry is deleted before the token endpoint is
\* called.  A callback gets to the token request only by the step that
\* deletes the entry it read, and that entry was not expired when read.
C18_DeleteBeforeExchange ==
    [][\A c \in Callbacks :
          /\ (cb[c].pc # "exchange" /\ cb'[c].pc = "exchange")
                => /\ cb[c].pc = "found"
                   /\ \A r \in pkce_states' : r._id # cb[c].pkce_record._id
          /\ (cb[c].pc = "idle" /\ cb'[c].pc = "found")
                => now <= cb'[c].pkce_record.expires_at]_vars

\* C18, second part: a retry with the state of a callback that failed at the
\* token exchange or at the identity fetch fails with the invalid-or-expired-
\* state error.
C18_RetryFails ==
    [][\A c \in Callbacks, code \in Codes, s \in StateValues :
          (/\ CallbackLookup(c, code, s, None)
           /\ \E d \in Callbacks : cb[d].state = s /\ FailedDownstream(d))
              => cb'[c].pc = "done" /\ InvalidOrExpiredState(cb'[c].result)]_vars

\* C18, third part: the token endpoint is never called for a state whose
\* entry is absent: the entry is still in pkce_states when the callback
\* deletes it and goes on to the token request.
C18_NoExchangeWithoutEntry ==
    [][\A c \in Callbacks :
          CallbackConsume(c) => cb[c].pkce_record \in pkce_states]_vars

\* C18: consumption precedes exchange.  In every callback the entry is
\* deleted before the token endpoint is called; a retry with the state of a
\* callback that failed at the token exchange or at the identity fetch fails
\* with the invalid-or-expired-state error; and the token endpoint is never
\* called for a state whose entry is absent or expired.
C18_ConsumptionPrecedesExchange ==
    /\ C18_DeleteBeforeExchange
    /\ C18_RetryFails
    /\ C18_NoExchangeWithoutEntry

\* C19: Identity keys are immutable.  Every users document stays in the
\* collection with the linkedin.user_id and created_at it was inserted with,
\* whatever callbacks and publishes run, and its linkedin.urn is always
\* "urn:li:person:" + its linkedin.user_id.
C19_KeysImmutable ==
    /\ [](\A u \in users : u.urn = <<"urn:li:person", u.user_id>>)
    /\ [][\A u \in users :
             \E u2 \in users' : /\ u2._id = u._id
                                /\ u2.user_id = u.user_id
                                /\ u2.created_at = u.created_at]_vars

\* member 43 was connected, and connected again at a later time by the
\* other callback, and has a post on record
C19_Witness ==
    \E u \in users :
        /\ u.user_id = "43"
        /\ \A c \in Callbacks : cb[c].pc = "done" /\ cb[c].result.status = 200
        /\ u.updated_at > u.created_at
        /\ Len(u.posts) = 1

====
